---------------------------- MODULE Spec2Model ----------------------------
(***************************************************************************)
(* folder-tree-exporter: src/src/folder_tree_exporter/cli.py               *)
(*                                                                         *)
(* The scanner (scan_directory_optimized), the renderer                    *)
(* (tree_to_lines_optimized), generate_tree, format_output and main.       *)
(*                                                                         *)
(* Strings are sequences of Unicode code points, so that startswith,       *)
(* lower, string comparison and concatenation are computed, not assumed.   *)
(***************************************************************************)
EXTENDS Integers, Sequences, FiniteSets, TLC

(***************************************************************************)
(* Bounds of the model.                                                    *)
(***************************************************************************)
\* most entries (files and directories) below the root of a filesystem
MaxEntries == 3
\* filesystems with more entries than this are exported as "root" with -p only
MaxSmallFs == 1
\* largest value given to -d / --depth
MaxDepthArg == 2
\* most non-root nodes of a tree handed directly to tree_to_lines_optimized
MaxNodes == 4

(***************************************************************************)
(* String literals of the program.                                         *)
(***************************************************************************)
\* "[Permission Denied]"
PermissionDenied == <<91, 80, 101, 114, 109, 105, 115, 115, 105, 111, 110, 32, 68, 101, 110, 105, 101, 100, 93>>
\* the two connectors and the two indents of the renderer
LastConnector == <<9492, 9472, 9472, 32>>
MidConnector == <<9500, 9472, 9472, 32>>
LastIndent == <<32, 32, 32, 32>>
MidIndent == <<9474, 32, 32, 32>>
\* "/", ".", "[", "\n"
Slash == <<47>>
Dot == <<46>>
Bracket == <<91>>
Newline == <<10>>
\* "Falling back to print:"
FallingBack == <<70, 97, 108, 108, 105, 110, 103, 32, 98, 97, 99, 107, 32, 116, 111, 32, 112, 114, 105, 110, 116, 58>>

(***************************************************************************)
(* Names of the filesystems explored: "a", "A", ".h" and a name equal to   *)
(* the sentinel's literal (which also begins with "[").  The root is       *)
(* "root".                                                                 *)
(***************************************************************************)
NameA == <<97>>
NameUpperA == <<65>>
NameHidden == <<46, 104>>
Names == {NameA, NameUpperA, NameHidden, PermissionDenied}
RootName == <<114, 111, 111, 116>>
RootNames == {RootName, NameHidden}

\* Optional[int]: None is <<>>, the integer k is <<k>>
None == <<>>
Some(k) == <<k>>

(***************************************************************************)
(* str.startswith, str.lower, str < str, "sep".join                        *)
(***************************************************************************)
StartsWith(s, p) == Len(s) >= Len(p) /\ SubSeq(s, 1, Len(p)) = p

LowerChar(c) == IF c \in 65..90 THEN c + 32 ELSE c

Lower(s) == [i \in 1..Len(s) |-> LowerChar(s[i])]

StrLess(s, t) ==
    \E i \in 1..Len(t) :
        /\ \A j \in 1..(i - 1) : j <= Len(s) /\ s[j] = t[j]
        /\ (i > Len(s) \/ s[i] < t[i])

RECURSIVE Join(_, _)
Join(sep, strs) ==
    IF strs = <<>> THEN <<>>
    ELSE IF Len(strs) = 1 THEN strs[1]
    ELSE strs[1] \o sep \o Join(sep, Tail(strs))

Reversed(s) == [i \in 1..Len(s) |-> s[Len(s) + 1 - i]]

(***************************************************************************)
(* items.sort(key=lambda x: (not x[1], x[0].lower())): the key, the        *)
(* comparison of two keys (tuples compare component by component, False    *)
(* before True), and the sort, which is stable.                            *)
(***************************************************************************)
\* a variant whose key holds the name as it is
SortKeyAsIs(item) == [not_dir |-> ~item.is_dir, lower |-> item.name]

SortKey(item) == [not_dir |-> ~item.is_dir, lower |-> Lower(item.name)]

KeyLess(k1, k2) ==
    \/ (~k1.not_dir /\ k2.not_dir)
    \/ (k1.not_dir = k2.not_dir /\ StrLess(k1.lower, k2.lower))

\* x goes before the first element whose key is greater than x's
InsertSorted(sorted, x) ==
    LET before == {i \in 1..Len(sorted) : KeyLess(SortKey(x), SortKey(sorted[i]))}
        pos == IF before = {} THEN Len(sorted) + 1
               ELSE CHOOSE i \in before : \A j \in before : i <= j
    IN  SubSeq(sorted, 1, pos - 1) \o <<x>> \o SubSeq(sorted, pos, Len(sorted))

RECURSIVE SortItems(_)
SortItems(items) ==
    IF items = <<>> THEN <<>>
    ELSE InsertSorted(SortItems(SubSeq(items, 1, Len(items) - 1)), items[Len(items)])

(***************************************************************************)
(* The filesystem below the root: a set of entries, each a path (the       *)
(* names from the root down) and whether it is a directory.  `unreadable'  *)
(* holds the directories whose listing raises PermissionError / OSError.   *)
(***************************************************************************)
DirPaths(f) == {<<>>} \cup {e.path : e \in {x \in f : x.is_dir}}

Parent(p) == SubSeq(p, 1, Len(p) - 1)

EntriesOf(f, p) == {e \in f : Len(e.path) = Len(p) + 1 /\ Parent(e.path) = p}

ExtendFs(f) ==
    LET free == {q \in {Append(p, n) : p \in DirPaths(f), n \in Names} :
                    \A e \in f : e.path # q}
    IN  {f \cup {[path |-> q, is_dir |-> d]} : q \in free, d \in BOOLEAN}

RECURSIVE FsOfSize(_)
FsOfSize(n) ==
    IF n = 0 THEN {{}}
    ELSE UNION {ExtendFs(f) : f \in FsOfSize(n - 1)}

FsSet == UNION {FsOfSize(n) : n \in 0..MaxEntries}

\* os.scandir yields the entries of a directory in an arbitrary order
Orders(S) ==
    {s \in [1..Cardinality(S) -> S] : \A i, j \in 1..Cardinality(S) : i # j => s[i] # s[j]}


(***************************************************************************)
(* The state of one run of the program.                                    *)
(*   fs, unreadable       the directory tree the program reads             *)
(*   args                 argparse's namespace: directory (the name of the *)
(*                        path and what it is: "missing", "file" or        *)
(*                        "dir"), depth, all, file (a -f path was given),  *)
(*                        print                                            *)
(*   CLIPBOARD_AVAILABLE  whether importing pyperclip succeeded            *)
(*   pc                   the position of the program                      *)
(*   nodes                the TreeNode objects, by identity; nodes[1] is   *)
(*                        the root; children holds identities              *)
(*   queue, dequeued      the scanner's deque and the nodes popped from it *)
(*   stack, lines         the renderer's stack and its result              *)
(*   rendered             the node each element of lines was made from     *)
(*   tree_lines, output   main's locals                                    *)
(*   stdout, stderr, clipboard, file_written, exit_status  the sinks       *)
(*   run, first_output    the run of the program and the previous run's    *)
(*                        document                                         *)
(***************************************************************************)
VARIABLES fs, unreadable, args, CLIPBOARD_AVAILABLE, pc, nodes, queue, dequeued,
          stack, lines, rendered, tree_lines, output, stdout, stderr, clipboard,
          file_written, exit_status, run, first_output

vars == <<fs, unreadable, args, CLIPBOARD_AVAILABLE, pc, nodes, queue, dequeued,
          stack, lines, rendered, tree_lines, output, stdout, stderr, clipboard,
          file_written, exit_status, run, first_output>>

env == <<fs, unreadable, args, CLIPBOARD_AVAILABLE>>
scanner == <<nodes, queue, dequeued>>
renderer == <<stack, lines, rendered>>
sinks == <<stdout, stderr, clipboard, file_written, exit_status>>
runs == <<run, first_output>>

\* TreeNode.__init__
TreeNode(name, is_dir, depth) ==
    [name |-> name, is_dir |-> is_dir, children |-> <<>>, depth |-> depth]

Root == 1

(***************************************************************************)
(* The state of a fresh process.                                           *)
(***************************************************************************)
Fresh ==
    /\ nodes = <<>>
    /\ queue = <<>>
    /\ dequeued = <<>>
    /\ stack = <<>>
    /\ lines = <<>>
    /\ rendered = <<>>
    /\ tree_lines = <<>>
    /\ output = <<>>
    /\ stdout = <<>>
    /\ stderr = <<>>
    /\ clipboard = None
    /\ file_written = None
    /\ exit_status = None

DepthArgs == {None} \cup {Some(k) : k \in 0..MaxDepthArg}

ArgSet ==
    [directory : [name : RootNames, kind : {"missing", "file", "dir"}],
     depth : DepthArgs, all : BOOLEAN, file : BOOLEAN, print : BOOLEAN]

\* the options under which the larger filesystems are explored
DefaultSink(a, clip) ==
    a.directory.name = RootName /\ ~a.file /\ a.print /\ clip

Init ==
    /\ args \in ArgSet
    /\ fs \in FsSet
    /\ args.directory.kind # "dir" => fs = {}
    /\ unreadable \in SUBSET DirPaths(fs)
    /\ args.directory.kind # "dir" => unreadable = {}
    /\ CLIPBOARD_AVAILABLE \in BOOLEAN
    /\ Cardinality(fs) > MaxSmallFs => DefaultSink(args, CLIPBOARD_AVAILABLE)
    /\ pc = "main"
    /\ run = 1
    /\ first_output = None
    /\ Fresh

(***************************************************************************)
(* main, lines 187-202: validate the directory, then call generate_tree.   *)
(***************************************************************************)
\* a variant that does not look at the directory
ValidateNothing ==
    /\ pc = "main"
    /\ stderr' = Append(stderr, "Generating folder structure...")
    /\ pc' = "generate_tree"
    /\ UNCHANGED <<env, scanner, renderer, tree_lines, output, stdout, clipboard,
                   file_written, exit_status, runs>>

Validate ==
    /\ pc = "main"
    /\ IF args.directory.kind = "missing"
       THEN /\ stderr' = Append(stderr, "Error: Directory does not exist")
            /\ exit_status' = Some(1)
            /\ pc' = "exit"
       ELSE IF args.directory.kind = "file"
       THEN /\ stderr' = Append(stderr, "Error: not a directory")
            /\ exit_status' = Some(1)
            /\ pc' = "exit"
       ELSE /\ stderr' = Append(stderr, "Generating folder structure...")
            /\ exit_status' = exit_status
            /\ pc' = "generate_tree"
    /\ UNCHANGED <<env, scanner, renderer, tree_lines, output, stdout, clipboard,
                   file_written, runs>>

\* f"Error: Directory '{directory}' does not exist", f"Error: '{directory}' is not a directory"
ErrorNotExist(directory) ==
    <<69, 114, 114, 111, 114, 58, 32, 68, 105, 114, 101, 99, 116, 111, 114, 121, 32, 39>>
    \o directory \o <<39, 32, 100, 111, 101, 115, 32, 110, 111, 116, 32, 101, 120, 105, 115, 116>>

ErrorNotDir(directory) ==
    <<69, 114, 114, 111, 114, 58, 32, 39>>
    \o directory \o <<39, 32, 105, 115, 32, 110, 111, 116, 32, 97, 32, 100, 105, 114, 101, 99, 116, 111, 114, 121>>

(***************************************************************************)
(* generate_tree, lines 122-131, and the start of scan_directory_optimized,*)
(* lines 35-38: the root node and the queue seeded with it.                *)
(***************************************************************************)
GenerateTree ==
    /\ pc = "generate_tree"
    /\ IF args.directory.kind = "missing"
       THEN /\ tree_lines' = <<ErrorNotExist(args.directory.name)>>
            /\ pc' = "format_output"
            /\ UNCHANGED <<nodes, queue>>
       ELSE IF args.directory.kind = "file"
       THEN /\ tree_lines' = <<ErrorNotDir(args.directory.name)>>
            /\ pc' = "format_output"
            /\ UNCHANGED <<nodes, queue>>
       ELSE /\ nodes' = <<TreeNode(args.directory.name, TRUE, 0)>>
            /\ queue' = <<[path |-> <<>>, node |-> Root, depth |-> 0]>>
            /\ pc' = "scan"
            /\ UNCHANGED tree_lines
    /\ UNCHANGED <<env, dequeued, renderer, output, sinks, runs>>

(***************************************************************************)
(* scan_directory_optimized, lines 40-70: one iteration of the loop.       *)
(***************************************************************************)
\* a variant that drops hidden files and keeps hidden directories
FilterHiddenFiles(listing, show_hidden) ==
    SelectSeq(listing, LAMBDA e : ~(~show_hidden /\ ~e.is_dir /\ StartsWith(e.name, Dot)))

\* lines 50-54: the entries kept, in the order os.scandir yielded them
FilterHidden(listing, show_hidden) ==
    SelectSeq(listing, LAMBDA e : ~(~show_hidden /\ StartsWith(e.name, Dot)))

\* a variant that compares with > (one level more is expanded)
DepthExceeded(max_depth, current_depth) ==
    max_depth # None /\ current_depth > max_depth[1]

\* line 43
DepthReached(max_depth, current_depth) ==
    max_depth # None /\ current_depth >= max_depth[1]

\* lines 60-65: the nodes made from the sorted items
NewNodes(items, current_depth) ==
    [i \in 1..Len(items) |-> TreeNode(items[i].name, items[i].is_dir, current_depth + 1)]

\* a variant that puts every item on the queue, files too
NewQueueItemsAll(items, current_path, current_depth, first_id) ==
    [k \in 1..Len(items) |->
        [path |-> Append(current_path, items[k].name),
         node |-> first_id + k - 1,
         depth |-> current_depth + 1]]

\* line 65: what the sorted items add to the queue
NewQueueItems(items, current_path, current_depth, first_id) ==
    LET idx == SelectSeq([i \in 1..Len(items) |-> i], LAMBDA i : items[i].is_dir)
    IN  [k \in 1..Len(idx) |->
            [path |-> Append(current_path, items[idx[k]].name),
             node |-> first_id + idx[k] - 1,
             depth |-> current_depth + 1]]

\* lines 67-69: the node added when the listing raises
ErrorNode(current_depth) == TreeNode(PermissionDenied, FALSE, current_depth + 1)

\* a variant in which the failure ends the scan
QueueAbandoned(rest) == <<>>

\* lines 67-70 and 40: after the except branch the loop goes on with the rest of the queue
QueueAfterError(rest) == rest

\* os.scandir(current_path) lists the directory or raises
ListingRaises(current_path) == current_path \in unreadable

ScanStep ==
    /\ pc = "scan"
    /\ queue # <<>>
    /\ LET cur == Head(queue)
           n == Len(nodes)
       IN  /\ dequeued' = Append(dequeued, cur.node)
           /\ IF DepthReached(args.depth, cur.depth)
              THEN /\ queue' = Tail(queue)
                   /\ UNCHANGED nodes
              ELSE IF ListingRaises(cur.path)
              THEN /\ nodes' = Append(
                                 [nodes EXCEPT ![cur.node].children = Append(@, n + 1)],
                                 ErrorNode(cur.depth))
                   /\ queue' = QueueAfterError(Tail(queue))
              ELSE \E order \in Orders(EntriesOf(fs, cur.path)) :
                     LET listing == [i \in 1..Len(order) |->
                                        [name |-> order[i].path[Len(order[i].path)],
                                         is_dir |-> order[i].is_dir]]
                         items == SortItems(FilterHidden(listing, args.all))
                     IN  /\ nodes' = [nodes EXCEPT ![cur.node].children =
                                          @ \o [i \in 1..Len(items) |-> n + i]]
                                     \o NewNodes(items, cur.depth)
                         /\ queue' = Tail(queue)
                                     \o NewQueueItems(items, cur.path, cur.depth, n + 1)
    /\ UNCHANGED <<env, pc, renderer, tree_lines, output, sinks, runs>>

\* line 72: the queue is empty, the root is returned to generate_tree (line 132)
ScanReturn ==
    /\ pc = "scan"
    /\ queue = <<>>
    /\ pc' = "to_lines"
    /\ UNCHANGED <<env, scanner, renderer, tree_lines, output, sinks, runs>>


(***************************************************************************)
(* tree_to_lines_optimized, lines 79-115.                                  *)
(***************************************************************************)
\* a variant that marks the last pushed (the first child) as is_last
PushChildrenLastPushed(children, prefix) ==
    [i \in 1..Len(children) |->
        [node |-> Reversed(children)[i], prefix |-> prefix,
         is_last |-> (i = Len(children))]]

\* a variant that pushes the children in their own order, the last child on top
PushChildrenForward(children, prefix) ==
    [i \in 1..Len(children) |->
        [node |-> children[i], prefix |-> prefix, is_last |-> (i = Len(children))]]

\* lines 87-89 and 111-113: the children pushed in reverse order, the first
\* pushed (the last child) marked is_last
PushChildren(children, prefix) ==
    [i \in 1..Len(children) |->
        [node |-> Reversed(children)[i], prefix |-> prefix, is_last |-> (i = 1)]]

\* lines 103-105
DisplayName(node) ==
    IF node.is_dir /\ ~StartsWith(node.name, Bracket)
    THEN node.name \o Slash
    ELSE node.name

\* lines 95-100
CurrentPrefix(is_last) == IF is_last THEN LastConnector ELSE MidConnector

\* a variant that puts the indent in front of the inherited prefix
ChildPrefixInFront(parent_prefix, is_last) ==
    IF is_last THEN LastIndent \o parent_prefix ELSE MidIndent \o parent_prefix

ChildPrefix(parent_prefix, is_last) ==
    IF is_last THEN parent_prefix \o LastIndent ELSE parent_prefix \o MidIndent

\* line 107
Line(node, parent_prefix, is_last) ==
    parent_prefix \o CurrentPrefix(is_last) \o DisplayName(node)

\* lines 79-89
ToLines ==
    /\ pc = "to_lines"
    /\ IF nodes[Root].children = <<>>
       THEN /\ tree_lines' = <<>>
            /\ pc' = "format_output"
            /\ UNCHANGED stack
       ELSE /\ stack' = PushChildren(nodes[Root].children, <<>>)
            /\ pc' = "render"
            /\ UNCHANGED tree_lines
    /\ UNCHANGED <<env, scanner, lines, rendered, output, sinks, runs>>

\* lines 91-113: one iteration of the loop
RenderStep ==
    /\ pc = "render"
    /\ stack # <<>>
    /\ LET top == stack[Len(stack)]
           node == nodes[top.node]
       IN  /\ lines' = Append(lines, Line(node, top.prefix, top.is_last))
           /\ rendered' = Append(rendered, top.node)
           /\ stack' = SubSeq(stack, 1, Len(stack) - 1)
                       \o PushChildren(node.children, ChildPrefix(top.prefix, top.is_last))
    /\ UNCHANGED <<env, pc, scanner, tree_lines, output, sinks, runs>>

\* line 115: the stack is empty, the lines are returned (generate_tree, line 132)
RenderReturn ==
    /\ pc = "render"
    /\ stack = <<>>
    /\ tree_lines' = lines
    /\ pc' = "format_output"
    /\ UNCHANGED <<env, scanner, renderer, output, sinks, runs>>

(***************************************************************************)
(* format_output, lines 139-142 (main, line 205).                          *)
(***************************************************************************)
Document(name, tree) == Join(Newline, <<name \o Slash>> \o tree)

FormatOutput ==
    /\ pc = "format_output"
    /\ output' = Document(args.directory.name, tree_lines)
    /\ pc' = "deliver"
    /\ UNCHANGED <<env, scanner, renderer, tree_lines, sinks, runs>>

(***************************************************************************)
(* main, lines 208-236: the sinks.  Whether open/write and pyperclip.copy  *)
(* raise is decided by the environment when they are called.               *)
(***************************************************************************)
\* lines 208-216
DeliverFile ==
    /\ pc = "deliver"
    /\ args.file
    /\ \E written \in BOOLEAN :
        IF written
        THEN /\ file_written' = Some(output)
             /\ stderr' = Append(stderr, "Tree structure saved")
             /\ exit_status' = Some(0)
        ELSE /\ stderr' = Append(stderr, "Error writing to file")
             /\ exit_status' = Some(1)
             /\ UNCHANGED file_written
    /\ pc' = "exit"
    /\ UNCHANGED <<env, scanner, renderer, tree_lines, output, stdout, clipboard, runs>>

\* lines 218-220
DeliverPrint ==
    /\ pc = "deliver"
    /\ ~args.file
    /\ args.print
    /\ stdout' = Append(stdout, output)
    /\ exit_status' = Some(0)
    /\ pc' = "exit"
    /\ UNCHANGED <<env, scanner, renderer, tree_lines, output, stderr, clipboard,
                   file_written, runs>>

\* a variant that falls back to printing when pyperclip is missing
ClipboardMissingPrints ==
    /\ pc = "deliver"
    /\ ~args.file
    /\ ~args.print
    /\ ~CLIPBOARD_AVAILABLE
    /\ stderr' = Append(stderr, "Error: pyperclip not installed")
    /\ stdout' = Append(stdout, output)
    /\ exit_status' = Some(0)
    /\ pc' = "exit"
    /\ UNCHANGED <<env, scanner, renderer, tree_lines, output, clipboard,
                   file_written, runs>>

\* lines 224-227
ClipboardMissing ==
    /\ pc = "deliver"
    /\ ~args.file
    /\ ~args.print
    /\ ~CLIPBOARD_AVAILABLE
    /\ stderr' = stderr \o <<"Error: pyperclip not installed", "Install with: rye add pyperclip">>
    /\ exit_status' = Some(1)
    /\ pc' = "exit"
    /\ UNCHANGED <<env, scanner, renderer, tree_lines, output, stdout, clipboard,
                   file_written, runs>>

\* lines 229-236
ClipboardCopy ==
    /\ pc = "deliver"
    /\ ~args.file
    /\ ~args.print
    /\ CLIPBOARD_AVAILABLE
    /\ \E copied \in BOOLEAN :
        IF copied
        THEN /\ clipboard' = Some(output)
             /\ stderr' = Append(stderr, "Tree structure copied to clipboard!")
             /\ UNCHANGED stdout
        ELSE /\ stderr' = Append(stderr, "Error copying to clipboard")
             /\ stdout' = stdout \o <<FallingBack, output>>
             /\ UNCHANGED clipboard
    /\ exit_status' = Some(0)
    /\ pc' = "exit"
    /\ UNCHANGED <<env, scanner, renderer, tree_lines, output, file_written, runs>>

(***************************************************************************)
(* The program is run again on the same directory with the same options.   *)
(***************************************************************************)
Rerun ==
    /\ pc = "exit"
    /\ run = 1
    /\ run' = 2
    /\ first_output' = Some(output)
    /\ pc' = "main"
    /\ nodes' = <<>>
    /\ queue' = <<>>
    /\ dequeued' = <<>>
    /\ stack' = <<>>
    /\ lines' = <<>>
    /\ rendered' = <<>>
    /\ tree_lines' = <<>>
    /\ output' = <<>>
    /\ stdout' = <<>>
    /\ stderr' = <<>>
    /\ clipboard' = None
    /\ file_written' = None
    /\ exit_status' = None
    /\ UNCHANGED env

Next ==
    \/ Validate
    \/ GenerateTree
    \/ ScanStep
    \/ ScanReturn
    \/ ToLines
    \/ RenderStep
    \/ RenderReturn
    \/ FormatOutput
    \/ DeliverFile
    \/ DeliverPrint
    \/ ClipboardMissing
    \/ ClipboardCopy
    \/ Rerun

Spec == Init /\ [][Next]_vars

(***************************************************************************)
(* tree_to_lines_optimized on its own: every tree of at most MaxNodes      *)
(* nodes below the root, only directories having children.  The nodes are  *)
(* numbered breadth first, so each tree is drawn once.                     *)
(***************************************************************************)
RenderNames == {NameA, PermissionDenied}

ParentOf(t, c) == CHOOSE p \in 1..Len(t) : \E i \in 1..Len(t[p].children) : t[p].children[i] = c

ExtendTree(t) ==
    LET n == Len(t) + 1
        low == IF n = 2 THEN 1 ELSE ParentOf(t, n - 1)
        parents == {p \in low..(n - 1) : t[p].is_dir}
    IN  {Append([t EXCEPT ![p].children = Append(@, n)],
                TreeNode(name, d, t[p].depth + 1)) :
            p \in parents, name \in RenderNames, d \in BOOLEAN}

RECURSIVE TreesOfSize(_)
TreesOfSize(n) ==
    IF n = 0 THEN {<<TreeNode(RootName, TRUE, 0)>>}
    ELSE UNION {ExtendTree(t) : t \in TreesOfSize(n - 1)}

TreeSet == UNION {TreesOfSize(n) : n \in 0..MaxNodes}

InitRender ==
    /\ fs = {}
    /\ unreadable = {}
    /\ args = [directory |-> [name |-> RootName, kind |-> "dir"], depth |-> None, all |-> FALSE, file |-> FALSE,
               print |-> TRUE]
    /\ CLIPBOARD_AVAILABLE = TRUE
    /\ pc = "to_lines"
    /\ run = 1
    /\ first_output = None
    /\ nodes \in TreeSet
    /\ queue = <<>>
    /\ dequeued = <<>>
    /\ stack = <<>>
    /\ lines = <<>>
    /\ rendered = <<>>
    /\ tree_lines = <<>>
    /\ output = <<>>
    /\ stdout = <<>>
    /\ stderr = <<>>
    /\ clipboard = None
    /\ file_written = None
    /\ exit_status = None

NextRender ==
    \/ ToLines
    \/ RenderStep
    \/ RenderReturn

SpecRender == InitRender /\ [][NextRender]_vars


(***************************************************************************)
(* Reading a tree: the last child of a node, the proper ancestors of a     *)
(* node below the root (root first), the path of a node.                   *)
(***************************************************************************)
NodeIds == 1..Len(nodes)

IsLastChild(t, c) ==
    LET ch == t[ParentOf(t, c)].children IN ch[Len(ch)] = c

RECURSIVE Ancestors(_, _)
Ancestors(t, c) ==
    LET p == ParentOf(t, c)
    IN  IF p = Root THEN <<>> ELSE Append(Ancestors(t, p), p)

RECURSIVE PathOf(_, _)
PathOf(t, c) ==
    IF c = Root THEN <<>> ELSE Append(PathOf(t, ParentOf(t, c)), t[c].name)

RECURSIVE Concat(_)
Concat(strs) == IF strs = <<>> THEN <<>> ELSE strs[1] \o Concat(Tail(strs))

\* the part of line i where the connector stands, and what follows it
ConnectorOf(i) ==
    LET k == 4 * Len(Ancestors(nodes, rendered[i])) IN SubSeq(lines[i], k + 1, k + 4)

DisplayOf(i) ==
    LET k == 4 * Len(Ancestors(nodes, rendered[i])) IN SubSeq(lines[i], k + 5, Len(lines[i]))

LinesOfChildren(p) == {i \in 1..Len(lines) : ParentOf(nodes, rendered[i]) = p}

(***************************************************************************)
(* C1.  For every tree and every node with at least one child, exactly one *)
(* of its children is rendered with the connector "└── ", namely the last  *)
(* of its children sequence, and every other child with "├── ".            *)
(***************************************************************************)
C1_LastChildConnector ==
    /\ \A i \in 1..Len(lines) :
          ConnectorOf(i) = IF IsLastChild(nodes, rendered[i])
                           THEN LastConnector ELSE MidConnector
    /\ pc = "format_output" =>
          \A p \in NodeIds :
              nodes[p].children # <<>> =>
                  /\ \A j \in 1..Len(nodes[p].children) :
                        Cardinality({i \in LinesOfChildren(p) :
                                        rendered[i] = nodes[p].children[j]}) = 1
                  /\ Cardinality({i \in LinesOfChildren(p) :
                                     ConnectorOf(i) = LastConnector}) = 1

\* a rendered tree in which the root and a node below it have several children
C1_Witness ==
    /\ pc = "format_output"
    /\ Len(lines) = Len(nodes) - 1
    /\ Len(nodes[Root].children) >= 2
    /\ \E p \in NodeIds : p # Root /\ Len(nodes[p].children) >= 2

(***************************************************************************)
(* C2.  The line of every rendered node is prefix + connector + display    *)
(* name, the prefix being, over the node's proper ancestors below the root *)
(* from the root down, four spaces for an ancestor that is the last of its *)
(* siblings and "│   " for one that is not; empty for children of the root.*)
(***************************************************************************)
ExpectedPrefix(c) ==
    LET anc == Ancestors(nodes, c)
    IN  Concat([k \in 1..Len(anc) |->
                   IF IsLastChild(nodes, anc[k]) THEN LastIndent ELSE MidIndent])

\* C2: every line is the ancestors' indents, root first, then the connector,
\* then the display name
C2_LinePrefix ==
    \A i \in 1..Len(lines) :
        LET c == rendered[i]
        IN  /\ lines[i] = ExpectedPrefix(c)
                          \o (IF IsLastChild(nodes, c) THEN LastConnector ELSE MidConnector)
                          \o DisplayName(nodes[c])
            /\ ParentOf(nodes, c) = Root => ExpectedPrefix(c) = <<>>

\* a rendered node with two ancestors below the root, one a last sibling, one not
C2_Witness ==
    \E i \in 1..Len(lines) :
        LET anc == Ancestors(nodes, rendered[i])
        IN  /\ Len(anc) = 2
            /\ IsLastChild(nodes, anc[1]) # IsLastChild(nodes, anc[2])


(***************************************************************************)
(* Reading the scan: it is over, an entry of the filesystem is visible     *)
(* (no name on its path is hidden, unless hidden entries are asked for),   *)
(* reachable (every directory above it can be listed), within the depth    *)
(* asked for; the node made for an entry.                                  *)
(***************************************************************************)
ScanDone ==
    /\ args.directory.kind = "dir"
    /\ pc \in {"to_lines", "render", "format_output", "deliver", "exit"}

RenderDone == pc \in {"format_output", "deliver", "exit"}

HiddenName(name) == StartsWith(name, Dot)

Visible(e) == args.all \/ \A k \in 1..Len(e.path) : ~HiddenName(e.path[k])

Reachable(e) == \A k \in 0..(Len(e.path) - 1) : SubSeq(e.path, 1, k) \notin unreadable

WithinDepth(e) == args.depth = None \/ Len(e.path) <= args.depth[1]

NodesOf(e) ==
    {n \in NodeIds : /\ PathOf(nodes, n) = e.path
                     /\ nodes[n].is_dir = e.is_dir
                     /\ nodes[n].depth = Len(e.path)}

\* a before b in a children sequence agrees with the sort rule
InOrder(a, b) ==
    IF a.is_dir # b.is_dir THEN a.is_dir
    ELSE ~StrLess(Lower(b.name), Lower(a.name))

(***************************************************************************)
(* C3.  In the scanned tree, for every node and every two of its children  *)
(* a before b: if exactly one is a directory it is a; otherwise            *)
(* lower(a.name) <= lower(b.name); whatever the order of the listing.      *)
(***************************************************************************)
C3_SortedChildren ==
    \A p \in NodeIds :
        \A i, j \in 1..Len(nodes[p].children) :
            i < j => InOrder(nodes[nodes[p].children[i]], nodes[nodes[p].children[j]])

\* a directory expanded into three children, directories and files among them
C3_Witness ==
    /\ ScanDone
    /\ \E p \in NodeIds :
          /\ Len(nodes[p].children) = 3
          /\ \E i, j \in 1..3 : nodes[nodes[p].children[i]].is_dir
                                /\ ~nodes[nodes[p].children[j]].is_dir

(***************************************************************************)
(* C4.  With maxDepth = k every node (and every rendered line) has depth   *)
(* <= k, a node has children only if it is a directory of depth < k,       *)
(* directories at depth k are listed without children, and maxDepth = 0    *)
(* yields no lines; with maxDepth absent every visible entry reachable     *)
(* from the root appears, at every depth.                                  *)
(***************************************************************************)
C4_DepthLimit ==
    /\ \A n \in NodeIds : nodes[n].depth = Len(PathOf(nodes, n))
    /\ args.depth # None =>
          /\ \A n \in NodeIds :
                /\ nodes[n].depth <= args.depth[1]
                /\ nodes[n].children # <<>> =>
                      nodes[n].is_dir /\ nodes[n].depth < args.depth[1]
          /\ \A i \in 1..Len(lines) : nodes[rendered[i]].depth <= args.depth[1]
          /\ (args.depth[1] = 0 /\ RenderDone) => tree_lines = <<>>
    /\ ScanDone =>
          \A e \in fs :
              (Visible(e) /\ Reachable(e) /\ WithinDepth(e)) => NodesOf(e) # {}
    /\ (ScanDone /\ RenderDone) =>
          \A e \in fs :
              (Visible(e) /\ Reachable(e) /\ WithinDepth(e)) =>
                  \E i \in 1..Len(tree_lines) : rendered[i] \in NodesOf(e)

\* maxDepth = 1 and a readable directory at depth 1 that holds visible entries
C4_Witness ==
    /\ pc = "exit"
    /\ args.depth = Some(1)
    /\ \E n \in NodeIds :
          /\ nodes[n].is_dir
          /\ nodes[n].depth = 1
          /\ nodes[n].children = <<>>
          /\ PathOf(nodes, n) \notin unreadable
          /\ \E e \in EntriesOf(fs, PathOf(nodes, n)) : Visible(e)

(***************************************************************************)
(* C5, as amended.  With includeHidden = false no node other than the root *)
(* has a name beginning with ".", no entry lying below a hidden directory  *)
(* of the exported tree appears, and no hidden directory is enqueued; with *)
(* includeHidden = true every listed entry whose name begins with "."      *)
(* appears as a node, placed by the sort rule.                             *)
(***************************************************************************)
C5_HiddenFilter ==
    /\ ~args.all =>
          /\ \A n \in NodeIds \ {Root} :
                /\ ~HiddenName(nodes[n].name)
                /\ \A k \in 1..Len(PathOf(nodes, n)) : ~HiddenName(PathOf(nodes, n)[k])
          /\ \A q \in 1..Len(queue) :
                \A k \in 1..Len(queue[q].path) : ~HiddenName(queue[q].path[k])
    /\ (args.all /\ ScanDone) =>
          \A e \in fs :
              (HiddenName(e.path[Len(e.path)]) /\ Reachable(e) /\ WithinDepth(e)) =>
                  /\ Cardinality(NodesOf(e)) = 1
                  /\ \A n \in NodesOf(e) :
                        LET ch == nodes[ParentOf(nodes, n)].children
                        IN  \A i, j \in 1..Len(ch) :
                                (i < j /\ n \in {ch[i], ch[j]}) =>
                                    InOrder(nodes[ch[i]], nodes[ch[j]])

\* hidden entries left out: a hidden directory that holds an entry, beside a visible entry
C5_Witness ==
    /\ ScanDone
    /\ ~args.all
    /\ args.depth = None
    /\ unreadable = {}
    /\ Len(nodes) >= 2
    /\ \E e \in fs : /\ e.is_dir
                     /\ HiddenName(e.path[Len(e.path)])
                     /\ EntriesOf(fs, e.path) # {}

\* C5 as stated: with includeHidden = false no node at all has a name beginning
\* with ".", and no entry lying below a hidden directory appears in the tree
C5_NoHiddenNode ==
    ~args.all =>
        /\ \A n \in NodeIds : ~HiddenName(nodes[n].name)
        /\ \A n \in NodeIds \ {Root} :
              ~HiddenName(nodes[ParentOf(nodes, n)].name)


(***************************************************************************)
(* C6.  When listing a dequeued directory fails, its node ends the scan    *)
(* with exactly one child, the sentinel (not a directory, no children,     *)
(* depth one more), and no real children; the scan does not abort: every   *)
(* directory in or later added to the queue is still dequeued and          *)
(* expanded, and the nodes already built are unchanged.                    *)
(***************************************************************************)
Sentinel(depth) ==
    [name |-> PermissionDenied, is_dir |-> FALSE, children |-> <<>>, depth |-> depth]

Failed(n) ==
    PathOf(nodes, n) \in unreadable /\ ~DepthReached(args.depth, nodes[n].depth)

VisibleEntriesOf(path) ==
    {e \in EntriesOf(fs, path) : args.all \/ ~HiddenName(e.path[Len(e.path)])}

\* C6, first part: a directory whose listing failed holds the sentinel alone
C6_SentinelOnly ==
    \A k \in 1..Len(dequeued) :
        LET n == dequeued[k]
        IN  Failed(n) =>
                /\ Len(nodes[n].children) = 1
                /\ nodes[nodes[n].children[1]] = Sentinel(nodes[n].depth + 1)

\* C6, second part: the queue is drained, every directory node was dequeued
\* once, every listable directory holds a node per visible entry
C6_NotAborted ==
    ScanDone =>
        /\ queue = <<>>
        /\ \A n \in NodeIds :
              nodes[n].is_dir =>
                  /\ Cardinality({k \in 1..Len(dequeued) : dequeued[k] = n}) = 1
                  /\ (~Failed(n) /\ ~DepthReached(args.depth, nodes[n].depth)) =>
                        /\ Len(nodes[n].children) =
                               Cardinality(VisibleEntriesOf(PathOf(nodes, n)))
                        /\ \A e \in VisibleEntriesOf(PathOf(nodes, n)) :
                              \E i \in 1..Len(nodes[n].children) :
                                  nodes[n].children[i] \in NodesOf(e)

\* C6, third part: a scan step changes only the children of the dequeued node
C6_NodesKept ==
    (pc = "scan" /\ queue # <<>>) =>
        \A n \in NodeIds :
            IF n = Head(queue).node
            THEN /\ nodes[n].children = <<>>
                 /\ nodes'[n].name = nodes[n].name
                 /\ nodes'[n].is_dir = nodes[n].is_dir
                 /\ nodes'[n].depth = nodes[n].depth
            ELSE nodes'[n] = nodes[n]

\* C6: a failed listing leaves the sentinel alone, the scan goes on to the end
\* and nodes already built are unchanged
C6_Resilience ==
    /\ [](C6_SentinelOnly /\ C6_NotAborted)
    /\ [][C6_NodesKept]_vars

\* a directory whose listing failed, and a directory dequeued after it that was
\* expanded into real children
C6_Witness ==
    /\ pc = "exit"
    /\ \E i, j \in 1..Len(dequeued) :
          /\ i < j
          /\ dequeued[i] # Root
          /\ Failed(dequeued[i])
          /\ ~Failed(dequeued[j])
          /\ nodes[dequeued[j]].children # <<>>

(***************************************************************************)
(* C7.  For every rendered node: a directory node's display name is its    *)
(* name followed by "/", whatever the name; a file node's or the           *)
(* sentinel's is its name unmodified.                                      *)
(***************************************************************************)
IsSentinel(n) == n # Root /\ Failed(ParentOf(nodes, n))

\* C7: directories are displayed with "/" appended, files and the sentinel as
\* they are
C7_DisplayNames ==
    \A i \in 1..Len(lines) :
        LET n == rendered[i]
        IN  DisplayOf(i) = IF nodes[n].is_dir /\ ~IsSentinel(n)
                           THEN nodes[n].name \o Slash
                           ELSE nodes[n].name

\* the last sentence of C7: the sentinel's literal name is never the name of a
\* real entry node (a file or directory may bear that very name)
C7_SentinelLiteral ==
    \A n \in NodeIds \ {Root} : ~IsSentinel(n) => nodes[n].name # PermissionDenied

(***************************************************************************)
(* C8.  Two runs on the same unchanged directory tree with the same        *)
(* maxDepth and includeHidden produce identical output, even when the      *)
(* listing returns the entries of a directory in a different order.        *)
(***************************************************************************)
C8_SameOutput ==
    (run = 2 /\ pc \in {"deliver", "exit"}) => output = first_output[1]


(***************************************************************************)
(* C9.  When the root path does not exist or is not a directory, the       *)
(* operation signals an error and produces no tree: no directory is        *)
(* listed, no line is rendered, and the process exits with a non-zero      *)
(* status without delivering a document to any sink.                       *)
(***************************************************************************)
Reported(message) == \E i \in 1..Len(stderr) : stderr[i] = message

\* C9: a missing path or a file is reported, nothing is scanned, rendered or
\* delivered, and the exit status is 1
C9_RootErrors ==
    args.directory.kind # "dir" =>
        /\ pc \in {"main", "exit"}
        /\ nodes = <<>> /\ queue = <<>> /\ dequeued = <<>>
        /\ stack = <<>> /\ lines = <<>> /\ tree_lines = <<>>
        /\ output = <<>>
        /\ stdout = <<>> /\ clipboard = None /\ file_written = None
        /\ pc = "exit" =>
              /\ exit_status = Some(1)
              /\ args.directory.kind = "missing" => Reported("Error: Directory does not exist")
              /\ args.directory.kind = "file" => Reported("Error: not a directory")

\* the process has exited on a path that is a file
C9_Witness ==
    /\ pc = "exit"
    /\ args.directory.kind = "file"
    /\ exit_status = Some(1)

(***************************************************************************)
(* C10, as amended.  With no -f and no -p the document is copied to the    *)
(* clipboard.  If pyperclip is missing, the error is reported on the       *)
(* diagnostic stream, nothing is printed and the exit status is 1.  If the *)
(* copy call fails, the error is reported on the diagnostic stream, the    *)
(* notice "Falling back to print:" and the document are printed to         *)
(* standard output, and the process does not exit with a failure status.   *)
(***************************************************************************)
ClipboardRun ==
    /\ pc = "exit"
    /\ args.directory.kind = "dir"
    /\ ~args.file
    /\ ~args.print

\* C10, as amended: copied; or pyperclip missing, reported, exit status 1; or
\* the copy failed, reported, notice and document printed, exit status 0
C10_ClipboardSink ==
    ClipboardRun =>
        /\ file_written = None
        /\ IF ~CLIPBOARD_AVAILABLE
           THEN /\ clipboard = None
                /\ stdout = <<>>
                /\ Reported("Error: pyperclip not installed")
                /\ exit_status = Some(1)
           ELSE IF clipboard # None
           THEN /\ clipboard = Some(output)
                /\ stdout = <<>>
                /\ exit_status = Some(0)
           ELSE /\ stdout = <<FallingBack, output>>
                /\ Reported("Error copying to clipboard")
                /\ exit_status = Some(0)

\* pyperclip is missing and the process has exited
C10_Witness == ClipboardRun /\ ~CLIPBOARD_AVAILABLE /\ output # <<>>

\* C10 as stated: the document is on the clipboard, or else it was printed, the
\* fallback was reported on the diagnostic stream and the status is no failure
C10_AlwaysDelivered ==
    ClipboardRun =>
        \/ clipboard = Some(output) /\ exit_status = Some(0)
        \/ /\ \E i \in 1..Len(stdout) : stdout[i] = output
           /\ (Reported("Error copying to clipboard")
                  \/ Reported("Error: pyperclip not installed"))
           /\ exit_status # Some(1)


(***************************************************************************)
(* generate_tree_original, src/benchmark.py lines 22-73: the recursive     *)
(* implementation.  `order' gives, for each directory, the order in which  *)
(* path.iterdir() yields its entries.  The entries of the filesystems      *)
(* explored are files and directories, so is_file() is not is_dir() and    *)
(* the sort key (x.is_file(), x.name.lower()) is SortKey.                  *)
(***************************************************************************)
\* line 24
OriginalDepthExceeded(max_depth, current_depth) ==
    max_depth # None /\ current_depth > max_depth[1]

\* lines 37-42: the items of a directory, filtered and sorted
OriginalItems(path, order) ==
    LET listing == [i \in 1..Len(order[path]) |->
                       [name |-> order[path][i].path[Len(order[path][i].path)],
                        is_dir |-> order[path][i].is_dir]]
        kept == IF ~args.all
                THEN SelectSeq(listing, LAMBDA e : ~StartsWith(e.name, Dot))
                ELSE listing
    IN  SortItems(kept)

RECURSIVE OriginalLines(_, _, _)
RECURSIVE OriginalItemLines(_, _, _, _, _)

\* lines 44-68: the lines of items[i..], each item's line followed by the
\* lines of its subtree behind the child prefix
OriginalItemLines(items, i, path, current_depth, order) ==
    IF i > Len(items) THEN <<>>
    ELSE LET item == items[i]
             is_last == (i = Len(items))
             prefix == IF is_last THEN LastConnector ELSE MidConnector
             child_prefix == IF is_last THEN LastIndent ELSE MidIndent
             item_name == IF item.is_dir THEN item.name \o Slash ELSE item.name
             sub_lines == IF item.is_dir
                          THEN OriginalLines(Append(path, item.name),
                                             current_depth + 1, order)
                          ELSE <<>>
         IN  <<prefix \o item_name>>
             \o [k \in 1..Len(sub_lines) |-> child_prefix \o sub_lines[k]]
             \o OriginalItemLines(items, i + 1, path, current_depth, order)

\* lines 24-73
OriginalLines(path, current_depth, order) ==
    IF OriginalDepthExceeded(args.depth, current_depth) THEN <<>>
    ELSE IF path \in unreadable THEN <<MidConnector \o PermissionDenied>>
    ELSE OriginalItemLines(OriginalItems(path, order), 1, path, current_depth, order)

\* the orders in which the directories of the filesystem may be listed
OrderChoices ==
    LET dirs == DirPaths(fs)
        all == UNION {Orders(EntriesOf(fs, p)) : p \in dirs}
    IN  {o \in [dirs -> all] : \A p \in dirs : o[p] \in Orders(EntriesOf(fs, p))}

(***************************************************************************)
(* C11.  For every directory tree and every maxDepth and includeHidden,    *)
(* the iterative implementation returns the same line sequence as          *)
(* generate_tree_original (for some order of the listings, at least),      *)
(* trees deeper than maxDepth and directories whose listing raises a       *)
(* permission error included.                                              *)
(***************************************************************************)
C11_SameAsOriginal ==
    (ScanDone /\ RenderDone) =>
        tree_lines \in {OriginalLines(<<>>, 0, o) : o \in OrderChoices}

\* the same with no depth limit, no unreadable directory and no directory whose
\* name begins with "[": there the two implementations agree
C11_SameWhenPlain ==
    (/\ ScanDone /\ RenderDone
     /\ args.depth = None
     /\ unreadable = {}
     /\ \A e \in fs : e.is_dir => ~StartsWith(e.path[Len(e.path)], Bracket)) =>
        tree_lines \in {OriginalLines(<<>>, 0, o) : o \in OrderChoices}


(***************************************************************************)
(* The pre-order, left to right, of the nodes below the root: each child   *)
(* of a children sequence, then the pre-order of its own children, then    *)
(* the rest of the sequence.  Where a node stands among the rendered ones. *)
(***************************************************************************)
RECURSIVE PreorderOf(_, _)
PreorderOf(t, children) ==
    IF children = <<>> THEN <<>>
    ELSE <<children[1]>> \o PreorderOf(t, t[children[1]].children)
                         \o PreorderOf(t, Tail(children))

Preorder(t) == PreorderOf(t, t[Root].children)

IsPrefix(s, t) == Len(s) <= Len(t) /\ SubSeq(t, 1, Len(s)) = s

Pos(n) == CHOOSE i \in 1..Len(rendered) : rendered[i] = n

\* c is n or below n
InSubtree(c, n) == c = n \/ \E k \in 1..Len(Ancestors(nodes, c)) : Ancestors(nodes, c)[k] = n

(***************************************************************************)
(* C12.  tree_to_lines_optimized emits exactly one line per node below the *)
(* root and none for the root, in pre-order, left to right: the line of a  *)
(* node comes before the lines of all its descendants, and all lines of a  *)
(* child's subtree come before the line of that child's next sibling.  A   *)
(* root with no children yields the empty sequence.                        *)
(***************************************************************************)
C12_PreOrder ==
    /\ Len(lines) = Len(rendered)
    /\ IsPrefix(rendered, Preorder(nodes))
    /\ \A i \in 1..Len(rendered) : rendered[i] # Root
    /\ pc = "format_output" =>
          /\ tree_lines = lines
          /\ Len(tree_lines) = Len(nodes) - 1
          /\ \A n \in NodeIds \ {Root} :
                Cardinality({i \in 1..Len(rendered) : rendered[i] = n}) = 1
          /\ \A n, c \in NodeIds \ {Root} :
                (c # n /\ InSubtree(c, n)) => Pos(n) < Pos(c)
          /\ \A p \in NodeIds : \A j \in 1..(Len(nodes[p].children) - 1) :
                \A c \in NodeIds \ {Root} :
                    InSubtree(c, nodes[p].children[j]) =>
                        Pos(c) < Pos(nodes[p].children[j + 1])
          /\ nodes[Root].children = <<>> => tree_lines = <<>>

\* a rendered tree whose root has several children, the first with children of
\* its own, which stand between it and its next sibling
C12_Witness ==
    /\ pc = "format_output"
    /\ Len(nodes[Root].children) >= 2
    /\ nodes[nodes[Root].children[1]].children # <<>>
    /\ Len(tree_lines) = Len(nodes) - 1

\* a root without children, rendered
C12_EmptyRoot ==
    pc = "format_output" /\ nodes[Root].children = <<>> /\ tree_lines = <<>>


(***************************************************************************)
(* One run of main, with the scheduling of its two loops.  main runs in    *)
(* one thread and every call the loops make returns or raises (each        *)
(* listing is finite): while the queue is not empty the scan loop takes    *)
(* its head off (line 41), when it is empty the scan returns; while the    *)
(* stack is not empty the render loop pops it, when it is empty it         *)
(* returns.                                                                *)
(***************************************************************************)
\* lines 40-41: `while queue:' and queue.popleft()
ScanDequeue ==
    /\ pc = "scan"
    /\ queue # <<>>
    /\ dequeued' = Append(dequeued, Head(queue).node)

NextMain ==
    \/ Validate
    \/ GenerateTree
    \/ ScanStep
    \/ ScanReturn
    \/ ToLines
    \/ RenderStep
    \/ RenderReturn
    \/ FormatOutput
    \/ DeliverFile
    \/ DeliverPrint
    \/ ClipboardMissing
    \/ ClipboardCopy

SpecFair ==
    /\ Init
    /\ [][NextMain]_vars
    /\ WF_dequeued(ScanDequeue)
    /\ WF_vars(ScanReturn)
    /\ WF_vars(RenderStep)
    /\ WF_vars(RenderReturn)

\* the nodes waiting on the queue, and every node put on the queue so far
QueueNodes == [i \in 1..Len(queue) |-> queue[i].node]

Enqueued == dequeued \o QueueNodes

NoDuplicates(s) == \A i, j \in 1..Len(s) : s[i] = s[j] => i = j

\* only directories are put on the queue, each at most once; the render loop
\* does not start before the queue is empty; when the scan is over every
\* directory node has been taken off the queue, once; when the render loop
\* is over the stack is empty
C13_QueueDiscipline ==
    /\ \A i \in 1..Len(Enqueued) : nodes[Enqueued[i]].is_dir
    /\ NoDuplicates(Enqueued)
    /\ pc = "scan" => stack = <<>> /\ lines = <<>>
    /\ (pc \in {"to_lines", "render"} \/ stack # <<>> \/ lines # <<>>) => queue = <<>>
    /\ ScanDone =>
          /\ queue = <<>>
          /\ {dequeued[i] : i \in 1..Len(dequeued)} = {n \in NodeIds : nodes[n].is_dir}
          /\ NoDuplicates(dequeued)
    /\ RenderDone => stack = <<>>

\* an iteration of the scan loop takes the head off the queue and leaves the
\* rest of it in place, in front of what it adds
C13_Dequeue ==
    (pc = "scan" /\ queue # <<>>) =>
        /\ pc' = "scan"
        /\ dequeued' = Append(dequeued, queue[1].node)
        /\ IsPrefix(Tail(queue), queue')

\* the scan loop ends, with an empty queue; the render loop ends, with an
\* empty stack
C13_LoopsEnd ==
    /\ (pc = "scan") ~> (pc = "to_lines" /\ queue = <<>>)
    /\ (pc = "render") ~> (pc = "format_output" /\ stack = <<>>)

(***************************************************************************)
(* C13.  For every finite directory tree without cycles, the scan loop     *)
(* terminates with an empty work queue after dequeuing each enqueued       *)
(* directory exactly once (only directories are ever enqueued, each at     *)
(* most once), and the render loop starts only after the queue is empty    *)
(* and terminates with an empty stack.                                     *)
(***************************************************************************)
C13_Termination ==
    /\ []C13_QueueDiscipline
    /\ [][C13_Dequeue]_vars
    /\ C13_LoopsEnd

\* a finished run that took the root and two more directories off the queue
\* and rendered their nodes
C13_Witness ==
    /\ RenderDone
    /\ Len(dequeued) >= 3
    /\ queue = <<>>
    /\ stack = <<>>
    /\ Len(tree_lines) >= 3

=============================================================================
